---- MODULE Spec2Model ----
(***************************************************************************)
(* Model of the ci-test HTTP service (src/src/index.js): environment       *)
(* driven configuration loading, the Express middleware chain with its     *)
(* four GET routes, error handler and 404 catch-all, and the signal driven *)
(* shutdown of the listening server.                                       *)
(*                                                                         *)
(* JavaScript values are encoded so that TLC can compare them:             *)
(*   - a scalar is a string: "true", "false", "yes" (a non-empty string),  *)
(*     "0" (the number zero), "3000" ...                                   *)
(*   - an object is a set of <<key, scalar>> pairs, {} being the object {} *)
(*   - a field of the configuration document is [t, v]: t says whether the *)
(*     field is undefined (absent), null or an object, v holds the pairs.  *)
(***************************************************************************)
EXTENDS Integers, FiniteSets, Sequences, TLC

VARIABLES
    NODE_ENV,       \* process.env.NODE_ENV || 'development'
    PORT,           \* process.env.PORT || 3000
    LOG_LEVEL,      \* process.env.LOG_LEVEL || 'info'
    file,           \* content of config/environments/<NODE_ENV>.json on disk
    config,         \* the module-scope `config` binding
    warned,         \* console.warn of the loader was emitted
    phase,          \* position of the process in its life
    listening,      \* the server's listening handle is open
    signals,        \* termination signals handled so far (server.close calls)
    conns,          \* state of each client connection
    pendingAtSignal,\* connections with a request in flight at the first signal
    answeredPending,\* such a request has been answered since
    lastResponse,   \* the request answered last and its response
    sawError,       \* some earlier response had a 4xx or 5xx status
    exitCode,       \* process exit status, -1 while running
    loads,          \* times the loader (index.js 12-22) has run
    clock,          \* monotonic time elapsed since the process started
    reportedUptime, \* uptime in the latest /health response, 0 before any
    script          \* scripts/setup-gcp-oidc.sh: its runs and the cloud project

\* the state of the HTTP service
server == <<NODE_ENV, PORT, LOG_LEVEL, file, config, warned, phase, listening,
            signals, conns, pendingAtSignal, answeredPending, lastResponse,
            sawError, exitCode, loads, clock, reportedUptime>>

vars == <<NODE_ENV, PORT, LOG_LEVEL, file, config, warned, phase, listening,
          signals, conns, pendingAtSignal, answeredPending, lastResponse,
          sawError, exitCode, loads, clock, reportedUptime, script>>

----------------------------------------------------------------------------
(* Bounds *)

MaxConns == 2
MaxSignals == 2
MaxClock == 2

Conns == 1..MaxConns

----------------------------------------------------------------------------
(* JavaScript values *)

Undefined == [t |-> "undefined", v |-> {}]
Null == [t |-> "null", v |-> {}]
Obj(pairs) == [t |-> "obj", v |-> pairs]

\* typeof x === 'boolean'
IsBoolean(x) == x \in {"true", "false"}

\* ToBoolean of a scalar: false, 0 and null are falsy, non-empty strings truthy
Truthy(x) == x \in {"true", "yes"}

\* a || b on scalars
OrElse(a, b) == IF Truthy(a) THEN a ELSE b

\* obj.key for a field of the document; "undefined" when the field is
\* undefined or null (optional chaining) or has no such key
HasKey(field, key) == field.t = "obj" /\ \E p \in field.v : p[1] = key
Get(field, key) ==
    IF HasKey(field, key)
      THEN (CHOOSE p \in field.v : p[1] = key)[2]
      ELSE "undefined"

\* field || {} : objects are truthy, undefined and null are not
OrEmpty(field) == IF field.t = "obj" THEN field.v ELSE {}

Keys(pairs) == {p[1] : p \in pairs}

----------------------------------------------------------------------------
(* Configuration documents *)

\* A parsed JSON document: t is "undefined" (the unassigned `let config`),
\* "null", "num" (a scalar document) or "obj"; the four recognised top-level
\* fields are undefined unless the document is an object that has them.
Doc(t, app, features, logging, security) ==
    [t |-> t, app |-> app, features |-> features, logging |-> logging,
     security |-> security]

UndefinedDoc == Doc("undefined", Undefined, Undefined, Undefined, Undefined)
NullDoc == Doc("null", Undefined, Undefined, Undefined, Undefined)
NumDoc == Doc("num", Undefined, Undefined, Undefined, Undefined)
ObjDoc(app, features, logging, security) ==
    Doc("obj", app, features, logging, security)

\* A default record without the app sub-record.
DefaultConfigNoApp(port) ==
    ObjDoc(Undefined, Obj({}), Obj({<<"level", "info">>}), Undefined)

\* The record built in the catch block.
DefaultConfig(port) ==
    ObjDoc(Obj({<<"name", "ci-test">>, <<"port", port>>}),
           Obj({}),
           Obj({<<"level", "info">>}),
           Undefined)

\* The three flags GET / surfaces, and one more a file may define.
NamedFlags == {"newUI", "advancedAnalytics", "betaFeatures"}
FlagNames == NamedFlags \cup {"darkMode"}
FlagValues == {"true", "false", "yes"}

\* Every features object over FlagNames: each flag absent or set to a value.
FlagMaps ==
    { {<<n, f[n]>> : n \in {m \in FlagNames : f[m] # "absent"}} :
        f \in [FlagNames -> FlagValues \cup {"absent"}] }

LoggingFields == {Undefined, Obj({<<"level", "debug">>})}

\* What can be on disk for the environment: no file, a file that does not
\* parse, or a file holding a JSON document.
MissingFile == [state |-> "missing", doc |-> UndefinedDoc]
UnparseableFile == [state |-> "unparseable", doc |-> UndefinedDoc]
FileOf(doc) == [state |-> "ok", doc |-> doc]

\* require(`../config/environments/${NODE_ENV}.json`): throws when the file is
\* missing or does not parse, otherwise yields the parsed document.
RequireThrows(f) == f.state \in {"missing", "unparseable"}

\* The loader without its catch block: a throwing require leaves `config`
\* unassigned.
LoadedConfigNoCatch(f, port) == IF RequireThrows(f) THEN UndefinedDoc ELSE f.doc

\* config = { ...default, ...require(...) }: the fields the file lacks are
\* taken from the default record.
LoadedConfigMerged(f, port) ==
    IF RequireThrows(f) \/ f.doc.t # "obj" THEN DefaultConfig(port)
    ELSE LET d == DefaultConfig(port)
             Pick(a, b) == IF a = Undefined THEN b ELSE a
         IN  ObjDoc(Pick(f.doc.app, d.app), Pick(f.doc.features, d.features),
                    Pick(f.doc.logging, d.logging),
                    Pick(f.doc.security, d.security))

\* try { config = require(...) } catch { console.warn(...); config = default }
LoadedConfig(f, port) == IF RequireThrows(f) THEN DefaultConfig(port) ELSE f.doc

\* config.security?.cors : reading a property of null or undefined throws a
\* TypeError; of a number or an object it does not.
SecurityReadThrows(cfg) == cfg.t \in {"null", "undefined"}

----------------------------------------------------------------------------
(* Requests and the middleware chain *)

Methods == {"GET", "POST", "DELETE", "OPTIONS"}

\* A request URL (req.originalUrl) is held as the segments of its path,
\* folded to lower case, and the form it is written in: "plain" (/health),
\* "upper" (/HEALTH), "slash" (/health/) or "query" (/health?verbose=1).
\* Two URLs with different text are different records.
Url(segs, form) == [segs |-> segs, form |-> form]
Plain(segs) == Url(segs, "plain")
Forms == {"plain", "upper", "slash", "query"}

\* The patterns given to app.get: '/', '/health', '/features', '/api/status'
RootRoute == <<>>
HealthRoute == <<"health">>
FeaturesRoute == <<"features">>
StatusRoute == <<"api", "status">>
RouteSegs == {RootRoute, HealthRoute, FeaturesRoute, StatusRoute}
\* paths no route is registered for, as the tests request them
UnknownSegs == {<<"non-existent-route">>, <<"non-existent-endpoint">>}

\* The URLs that are letter for letter one of the four patterns.
RouteUrls == {Plain(r) : r \in RouteSegs}
Paths == RouteUrls \cup {Plain(<<"non-existent-route">>)}
\* the request carries no body, a JSON body, or a body that is not JSON
\* (sent with Content-Type: application/json)
Bodies == {"none", "json", "badjson"}

\* Requests: any method on any path without a body, and POST with a body.
Requests ==
    {r \in [method : Methods, path : Paths, body : Bodies] :
        r.body = "none" \/ r.method = "POST"}
\* GET on the four routes
RouteRequests ==
    {r \in Requests : r.method = "GET" /\ r.path \in RouteUrls}

\* Requests of the routing specification: the methods above and HEAD, on
\* every route and unknown path in every form, without a body; and POST
\* with a body on the plain URLs.
ProbeMethods == Methods \cup {"HEAD"}
ProbePaths ==
    {Url(p, f) : p \in RouteSegs \cup UnknownSegs, f \in Forms}
    \ {Url(RootRoute, "upper"), Url(RootRoute, "slash")}
ProbeRequests ==
    {r \in [method : ProbeMethods, path : ProbePaths, body : Bodies] :
        \/ r.body = "none"
        \/ r.method = "POST" /\ r.path.form = "plain"}

\* helmet(): registered first (index.js 25), it sets its headers on the
\* response object and calls next(); among them are these two.
HelmetHeaders == {"x-content-type-options", "x-frame-options"}

\* helmet() registered after the routes: only a request that no middleware
\* and no route has ended reaches it.
HeadersHelmetLast(res) == IF res.handler = "404" THEN HelmetHeaders ELSE {}

\* The security headers of a response when it is written, whichever handler
\* ends it: none of them removes a header.
HeadersSent(res) == HelmetHeaders

\* Express matches a route pattern case-insensitively, accepts one trailing
\* slash and ignores the query string (the application changes none of the
\* `case sensitive routing` and `strict routing` settings).
MatchesRoute(url, route) == url.segs = route

\* app.all(path, h): the handler answers every method.
RouteHandlesAll(method) == TRUE

\* app.get(path, h) also answers HEAD when no HEAD route is registered.
RouteHandles(method) == method \in {"GET", "HEAD"}

\* startTime - now
UptimeNegated(now) == 0 - now

\* process.uptime(): time since the process started, from the monotonic
\* clock.
ProcessUptime(now) == now

NoResponse == [status |-> 0, handler |-> "none"]

\* cors(): an OPTIONS request is a preflight; it is ended with 204 and the
\* chain stops (preflightContinue is off by default).
\* config.security?.cors || {} : the options handed to cors() (index.js 26)
CorsOptions(cfg) ==
    IF HasKey(cfg.security, "cors") THEN Get(cfg.security, "cors") ELSE {}

\* An option of cors(): the value given, or the library's default (origin
\* '*', preflightContinue false, optionsSuccessStatus 204).
CorsOption(opts, key, default) ==
    IF \E p \in opts : p[1] = key
      THEN (CHOOSE p \in opts : p[1] = key)[2]
      ELSE default

\* Number(text) for the status codes an options object holds
ToStatus(text) == IF text = "200" THEN 200 ELSE 204

\* A cors() that passes every OPTIONS request on to the next handler.
CorsPassesPreflightOn(req, opts) == FALSE

\* cors(): an OPTIONS request is a preflight; it is ended with the success
\* status and the chain stops, unless the options switch CORS off
\* (origin: false) or ask to pass the preflight on (preflightContinue).
CorsEndsRequest(req, opts) ==
    /\ req.method = "OPTIONS"
    /\ CorsOption(opts, "origin", "*") # "false"
    /\ CorsOption(opts, "preflightContinue", "false") # "true"
Preflight(req, opts) ==
    [status |-> ToStatus(CorsOption(opts, "optionsSuccessStatus", "204")),
     handler |-> "cors"]

\* express.json(): a body that does not parse makes the parser call
\* next(err) with a 400-class error; a request without body passes through.
BodyParserFails(req) == req.body = "badjson"
\* (a message is held as the sequence of the parts of its text)
BodyParseError ==
    [status |-> 400, message |-> <<"Unexpected token i in JSON">>]

\* A /health handler that reports "degraded" with 503 while another request
\* is in flight.
HealthHandlerUnderLoad(env, logLevel, port, now) ==
    LET busy == Cardinality({c \in Conns : conns[c] = "busy"}) > 1 IN
    [status |-> IF busy THEN 503 ELSE 200, handler |-> "/health",
     body |-> [status |-> IF busy THEN "degraded" ELSE "healthy",
               environment |-> env, version |-> "1.0.0",
               uptime |-> ProcessUptime(now),
               config |-> [logLevel |-> logLevel, port |-> port]]]

\* app.get('/health')
HealthHandler(env, logLevel, port, now) ==
    [status |-> 200, handler |-> "/health",
     body |-> [status |-> "healthy", environment |-> env, version |-> "1.0.0",
               uptime |-> ProcessUptime(now),
               config |-> [logLevel |-> logLevel, port |-> port]]]

\* A /features handler that answers with an empty map whatever was loaded.
FeaturesHandlerEmpty(cfg, env) ==
    [status |-> 200, handler |-> "/features",
     body |-> [environment |-> env, features |-> {},
               message |-> "Feature flags configuration"]]

\* app.get('/features')
FeaturesHandler(cfg, env) ==
    [status |-> 200, handler |-> "/features",
     body |-> [environment |-> env, features |-> OrEmpty(cfg.features),
               message |-> "Feature flags configuration"]]

\* config.features?.<flag> && false
FlagAndFalse(cfg, flag) ==
    IF Truthy(Get(cfg.features, flag)) THEN "false" ELSE Get(cfg.features, flag)

\* config.features?.<flag> || false
FlagOrFalse(cfg, flag) == OrElse(Get(cfg.features, flag), "false")

\* A / handler that reports config.logging?.level || LOG_LEVEL.
RootHandlerConfigLevel(cfg, env, logLevel) ==
    [status |-> 200, handler |-> "/",
     body |-> [message |-> "Welcome to Trunk-Based Development CI/CD Pipeline!",
               environment |-> env,
               logLevel |-> IF HasKey(cfg.logging, "level")
                              THEN Get(cfg.logging, "level") ELSE logLevel,
               features |-> {<<n, FlagOrFalse(cfg, n)>> : n \in NamedFlags}]]

\* app.get('/')
RootHandler(cfg, env, logLevel) ==
    [status |-> 200, handler |-> "/",
     body |-> [message |-> "Welcome to Trunk-Based Development CI/CD Pipeline!",
               environment |-> env, logLevel |-> logLevel,
               features |-> {<<n, FlagOrFalse(cfg, n)>> : n \in NamedFlags}]]

\* app.get('/api/status')
StatusHandler(cfg, env) ==
    [status |-> 200, handler |-> "/api/status",
     body |-> [status |-> "operational", environment |-> env,
               config |-> OrEmpty(cfg.app)]]

\* NODE_ENV !== 'production' ? err.message : 'Something went wrong'
ErrorHandlerUnlessProduction(err, env) ==
    [status |-> 500, handler |-> "error",
     body |-> [error |-> "Internal Server Error",
               message |-> IF env # "production" THEN err.message
                           ELSE <<"Something went wrong">>]]

\* app.use((err, req, res, next) => ...): every error passed to next()
ErrorHandler(err, env) ==
    [status |-> 500, handler |-> "error",
     body |-> [error |-> "Internal Server Error",
               message |-> IF env = "development" THEN err.message
                           ELSE <<"Something went wrong">>]]

\* `Route ${req.path} not found`: req.path is the URL without its query
\* string.
NotFoundEchoesPath(req) ==
    [status |-> 404, handler |-> "404",
     body |-> [error |-> "Not Found",
               message |-> <<"Route ",
                             IF req.path.form = "query"
                               THEN Plain(req.path.segs) ELSE req.path,
                             " not found">>]]

\* app.use('*', ...): `Route ${req.originalUrl} not found`
NotFoundHandler(req) ==
    [status |-> 404, handler |-> "404",
     body |-> [error |-> "Not Found",
               message |-> <<"Route ", req.path, " not found">>]]

\* The chain in registration order: helmet, cors, express.json,
\* express.urlencoded, the four GET routes, the error handler, the catch-all.
Respond(req, cfg, env, logLevel, port, now) ==
    IF CorsEndsRequest(req, CorsOptions(cfg))
      THEN Preflight(req, CorsOptions(cfg))
    ELSE IF BodyParserFails(req) THEN ErrorHandler(BodyParseError, env)
    ELSE IF RouteHandles(req.method) /\ MatchesRoute(req.path, HealthRoute)
      THEN HealthHandler(env, logLevel, port, now)
    ELSE IF RouteHandles(req.method) /\ MatchesRoute(req.path, FeaturesRoute)
      THEN FeaturesHandler(cfg, env)
    ELSE IF RouteHandles(req.method) /\ MatchesRoute(req.path, RootRoute)
      THEN RootHandler(cfg, env, logLevel)
    ELSE IF RouteHandles(req.method) /\ MatchesRoute(req.path, StatusRoute)
      THEN StatusHandler(cfg, env)
    ELSE NotFoundHandler(req)

----------------------------------------------------------------------------
(* The process *)

Envs == {"development", "production", "ghost"}
\* process.env.PORT || 3000, process.env.LOG_LEVEL || 'info'
DefaultPort == "3000"
DefaultLogLevel == "info"
LogLevels == {DefaultLogLevel, "warn"}

FeatureFields == {Undefined, Null} \cup {Obj(m) : m \in FlagMaps}

\* The record of the spec's production scenario: {features:{betaFeatures:false}}
ProductionDoc ==
    ObjDoc(Undefined, Obj({<<"betaFeatures", "false">>}), Undefined, Undefined)

\* A record with every recognised field, as the repository's environment
\* files have them.
StagingDoc ==
    ObjDoc(Obj({<<"name", "ci-test-staging">>, <<"port", "8080">>}),
           Obj({<<n, "true">> : n \in NamedFlags}),
           Obj({<<"level", "debug">>}),
           Obj({<<"cors", {<<"origin", "https://example.com">>}>>}))

\* Files of the lifecycle specification: one of each kind the loader and the
\* middleware setup tell apart.
SpecFiles ==
    {MissingFile, UnparseableFile, FileOf(NullDoc), FileOf(NumDoc),
     FileOf(ProductionDoc), FileOf(StagingDoc)}

\* Files of the configuration specification: every features and logging
\* field an object document can hold.
ConfigFiles ==
    {MissingFile}
    \cup {FileOf(ObjDoc(Undefined, f, l, Undefined)) :
            f \in FeatureFields, l \in LoggingFields}

\* The bootstrap script has not been run.
NotRun ==
    [run |-> 0, argc |-> 0, pc |-> "exited", exit |-> -1, cloud |-> {},
     commands |-> FALSE, issued |-> {}, created |-> {}, probeErrors |-> {},
     envFailure |-> FALSE, prevOk |-> FALSE, prevCreated |-> {}]

\* State of the process before the first statement of index.js has run.
Boot ==
    /\ config = UndefinedDoc
    /\ warned = FALSE
    /\ phase = "loading"
    /\ listening = FALSE
    /\ signals = 0
    /\ conns = [c \in Conns |-> "closed"]
    /\ pendingAtSignal = {}
    /\ answeredPending = FALSE
    /\ lastResponse = [req |-> [method |-> "", path |-> Plain(RootRoute),
                                body |-> ""],
                       res |-> NoResponse, headers |-> {}]
    /\ sawError = FALSE
    /\ exitCode = -1
    /\ loads = 0
    /\ clock = 0
    /\ reportedUptime = 0
    /\ script = NotRun

\* The lifecycle specification runs with PORT and LOG_LEVEL unset; the
\* configuration specification varies LOG_LEVEL.
Init ==
    /\ NODE_ENV \in Envs
    /\ PORT = DefaultPort
    /\ LOG_LEVEL = DefaultLogLevel
    /\ file \in SpecFiles
    /\ Boot

ConfigInit ==
    /\ NODE_ENV \in Envs
    /\ PORT = DefaultPort
    /\ LOG_LEVEL \in LogLevels
    /\ file \in ConfigFiles
    /\ Boot

Starting == phase \in {"loading", "wiring", "binding"}
Alive == phase \in {"serving", "draining"}

\* A loader that also runs while the server is up (a reload on demand).
LoadConfigOnDemand ==
    /\ phase \in {"loading", "serving", "draining"}
    /\ config' = LoadedConfig(file, PORT)
    /\ warned' = RequireThrows(file)
    /\ loads' = loads + 1
    /\ phase' = IF phase = "loading" THEN "wiring" ELSE phase
    /\ UNCHANGED <<NODE_ENV, PORT, LOG_LEVEL, file, listening, signals, conns,
                   pendingAtSignal, answeredPending, lastResponse, sawError,
                   exitCode, clock, reportedUptime, script>>

\* index.js 12-22: the loader.
LoadConfig ==
    /\ phase = "loading"
    /\ config' = LoadedConfig(file, PORT)
    /\ warned' = RequireThrows(file)
    /\ loads' = loads + 1
    /\ phase' = "wiring"
    /\ UNCHANGED <<NODE_ENV, PORT, LOG_LEVEL, file, listening, signals, conns,
                   pendingAtSignal, answeredPending, lastResponse, sawError,
                   exitCode, clock, reportedUptime, script>>

\* index.js 25-116: app.use(helmet()),
\* app.use(cors(config.security?.cors || {})),
\* the parsers, routes and handlers, process.on(...). The read of
\* config.security is outside any try block: a TypeError there is uncaught
\* and ends the process with status 1.
SetupMiddleware ==
    /\ phase = "wiring"
    /\ IF SecurityReadThrows(config)
         THEN phase' = "crashed" /\ exitCode' = 1
         ELSE phase' = "binding" /\ exitCode' = exitCode
    /\ UNCHANGED <<NODE_ENV, PORT, LOG_LEVEL, file, config, warned, listening,
                   signals, conns, pendingAtSignal, answeredPending,
                   lastResponse, sawError, loads, clock, reportedUptime,
                   script>>

\* index.js 119: app.listen(PORT, ...)
Listen ==
    /\ phase = "binding"
    /\ phase' = "serving"
    /\ listening' = TRUE
    /\ UNCHANGED <<NODE_ENV, PORT, LOG_LEVEL, file, config, warned, signals,
                   conns, pendingAtSignal, answeredPending, lastResponse,
                   sawError, exitCode, loads, clock, reportedUptime, script>>

\* A client connects: possible only while the listening handle is open.
Accept(c) ==
    /\ Alive
    /\ listening
    /\ conns[c] = "closed"
    /\ conns' = [conns EXCEPT ![c] = "idle"]
    /\ UNCHANGED <<NODE_ENV, PORT, LOG_LEVEL, file, config, warned, phase,
                   listening, signals, pendingAtSignal, answeredPending,
                   lastResponse, sawError, exitCode, loads, clock,
                   reportedUptime, script>>

\* A request starts to arrive on an open connection (a new connection's first
\* request, or the next request on a kept-alive one): it is in flight until
\* its response is written.
Begin(c) ==
    /\ Alive
    /\ conns[c] = "idle"
    /\ conns' = [conns EXCEPT ![c] = "busy"]
    /\ UNCHANGED <<NODE_ENV, PORT, LOG_LEVEL, file, config, warned, phase,
                   listening, signals, pendingAtSignal, answeredPending,
                   lastResponse, sawError, exitCode, loads, clock,
                   reportedUptime, script>>

\* An error in the chain that escapes as an uncaught exception ends the
\* process.
PhaseAfterUncaught(ph, res) == IF res.status >= 500 THEN "crashed" ELSE ph

\* What handling a request does to the process: every error raised in the
\* chain ends in the error handler (index.js 84-90), which answers and
\* returns; nothing exits or rethrows.
PhaseAfterRequest(ph, res) == ph

\* A handler that writes the defaults it computed back into the record.
ConfigAfterDefaulting(cfg, req) ==
    IF cfg.t = "obj" /\ MatchesRoute(req.path, RootRoute)
      THEN [cfg EXCEPT !.features =
                Obj({<<n, FlagOrFalse(cfg, n)>> : n \in NamedFlags})]
      ELSE cfg

\* What handling a request does to the module-scope `config`: the
\* middleware and the handlers (index.js 25-99) read it and assign to
\* neither the binding nor a property of the record.
ConfigAfterRequest(cfg, req) == cfg

\* The request is complete: the chain runs to the handler that answers it
\* and the response is written. The connection is then open without a
\* request; the client or the keep-alive timeout closes it.
Handle(c, req) ==
    /\ Alive
    /\ conns[c] = "busy"
    /\ LET res == Respond(req, config, NODE_ENV, LOG_LEVEL, PORT, clock) IN
         /\ lastResponse' = [req |-> req, res |-> res,
                             headers |-> HeadersSent(res)]
         /\ sawError' = (sawError \/ res.status >= 400)
         /\ phase' = PhaseAfterRequest(phase, res)
         /\ reportedUptime' = IF res.handler = "/health"
                                THEN res.body.uptime ELSE reportedUptime
    /\ config' = ConfigAfterRequest(config, req)
    /\ conns' = [conns EXCEPT ![c] = "idle"]
    /\ pendingAtSignal' = pendingAtSignal \ {c}
    /\ answeredPending' = (answeredPending \/ c \in pendingAtSignal)
    /\ UNCHANGED <<NODE_ENV, PORT, LOG_LEVEL, file, warned, listening,
                   signals, exitCode, loads, clock, script>>

\* The client closes its connection; a request in flight on it is aborted.
ClientClose(c) ==
    /\ Alive
    /\ conns[c] \in {"idle", "busy"}
    /\ conns' = [conns EXCEPT ![c] = "closed"]
    /\ pendingAtSignal' = pendingAtSignal \ {c}
    /\ UNCHANGED <<NODE_ENV, PORT, LOG_LEVEL, file, config, warned, phase,
                   listening, signals, answeredPending, lastResponse,
                   sawError, exitCode, loads, clock, reportedUptime, script>>

\* The server's keep-alive timeout closes a connection that stayed idle.
IdleTimeout(c) ==
    /\ Alive
    /\ conns[c] = "idle"
    /\ conns' = [conns EXCEPT ![c] = "closed"]
    /\ UNCHANGED <<NODE_ENV, PORT, LOG_LEVEL, file, config, warned, phase,
                   listening, signals, pendingAtSignal, answeredPending,
                   lastResponse, sawError, exitCode, loads, clock,
                   reportedUptime, script>>

\* A shutdown that leaves the listening handle as it was.
ServerCloseKeepsListening(l) == l

\* server.close(cb): the listening handle is closed; open connections stay.
ServerClose(l) == FALSE

\* A handler that exits at once when a signal arrives during the shutdown.
SignalForcesExit ==
    /\ Alive
    /\ signals < MaxSignals
    /\ signals' = signals + 1
    /\ phase' = IF signals = 0 THEN "draining" ELSE "stopped"
    /\ exitCode' = IF signals = 0 THEN exitCode ELSE 0
    /\ listening' = ServerClose(listening)
    /\ pendingAtSignal' = IF signals = 0
                            THEN {c \in Conns : conns[c] = "busy"}
                            ELSE pendingAtSignal
    /\ UNCHANGED <<NODE_ENV, PORT, LOG_LEVEL, file, config, warned, conns,
                   answeredPending, lastResponse, sawError, loads, clock,
                   reportedUptime, script>>

\* index.js 102-116: the SIGTERM / SIGINT handler calls server.close(cb).
Signal ==
    /\ Alive
    /\ signals < MaxSignals
    /\ signals' = signals + 1
    /\ phase' = "draining"
    /\ listening' = ServerClose(listening)
    /\ pendingAtSignal' = IF signals = 0
                            THEN {c \in Conns : conns[c] = "busy"}
                            ELSE pendingAtSignal
    /\ UNCHANGED <<NODE_ENV, PORT, LOG_LEVEL, file, config, warned, conns,
                   answeredPending, lastResponse, sawError, exitCode, loads,
                   clock, reportedUptime, script>>

SIGTERM == Signal
SIGINT == Signal

\* The server emits 'close' once the handle is closed and no connection is
\* left.
Drained == ~listening /\ \A c \in Conns : conns[c] = "closed"

\* The callback given to server.close: process.exit(0).
CloseCallback ==
    /\ phase = "draining"
    /\ Drained
    /\ phase' = "stopped"
    /\ exitCode' = 0
    /\ UNCHANGED <<NODE_ENV, PORT, LOG_LEVEL, file, config, warned, listening,
                   signals, conns, pendingAtSignal, answeredPending,
                   lastResponse, sawError, loads, clock, reportedUptime,
                   script>>

Serve(reqs) ==
    \E c \in Conns :
        \/ Accept(c)
        \/ Begin(c)
        \/ \E req \in reqs : Handle(c, req)
        \/ ClientClose(c)
        \/ IdleTimeout(c)

Next ==
    \/ LoadConfig
    \/ SetupMiddleware
    \/ Listen
    \/ Serve(Requests)
    \/ SIGTERM
    \/ SIGINT
    \/ CloseCallback

Spec == Init /\ [][Next]_vars

\* The lifecycle under the scheduling the runtime guarantees: the startup
\* statements run, a request in flight is answered, the keep-alive timer of
\* a connection that stays idle fires, the 'close' callback runs once the
\* server has drained. What clients do (connect, send, disconnect) and the
\* arrival of signals are not scheduled by the process.
Fairness ==
    /\ WF_vars(LoadConfig)
    /\ WF_vars(SetupMiddleware)
    /\ WF_vars(Listen)
    /\ \A c \in Conns :
          /\ WF_vars(\E req \in Requests : Handle(c, req))
          /\ WF_vars(IdleTimeout(c))
    /\ WF_vars(CloseCallback)

LiveSpec == Init /\ [][Next]_vars /\ Fairness

\* The configuration specification: every object document a file can hold,
\* under every setting of the environment variables, read through the four
\* GET routes.
ConfigNext ==
    \/ LoadConfig
    \/ SetupMiddleware
    \/ Listen
    \/ Serve(RouteRequests)

ConfigSpec == ConfigInit /\ [][ConfigNext]_vars

\* The routing specification: the process started without a configuration
\* file, asked with every method for every path in every form.
RouteInit ==
    /\ NODE_ENV \in Envs
    /\ PORT = DefaultPort
    /\ LOG_LEVEL = DefaultLogLevel
    /\ file = MissingFile
    /\ Boot

RouteNext ==
    \/ LoadConfig
    \/ SetupMiddleware
    \/ Listen
    \/ Serve(ProbeRequests)

RouteSpec == RouteInit /\ [][RouteNext]_vars

\* Option objects a file can hold in security.cors.
CorsOptionSets ==
    {{}, {<<"origin", "https://example.com">>}, {<<"origin", "false">>},
     {<<"preflightContinue", "true">>}, {<<"optionsSuccessStatus", "200">>}}

\* A record whose only field is security: { cors: opts }
CorsDoc(opts) ==
    ObjDoc(Undefined, Undefined, Undefined, Obj({<<"cors", opts>>}))

\* The CORS specification: the process started without a file or with a
\* file that sets the options of cors(), asked with every method.
CorsInit ==
    /\ NODE_ENV \in Envs
    /\ PORT = DefaultPort
    /\ LOG_LEVEL = DefaultLogLevel
    /\ file \in {MissingFile} \cup {FileOf(CorsDoc(o)) : o \in CorsOptionSets}
    /\ Boot

CorsNext ==
    \/ LoadConfig
    \/ SetupMiddleware
    \/ Listen
    \/ Serve(Requests)

CorsSpec == CorsInit /\ [][CorsNext]_vars

\* Time passes while the process runs.
Tick ==
    /\ phase \notin {"stopped", "crashed"}
    /\ clock < MaxClock
    /\ clock' = clock + 1
    /\ UNCHANGED <<NODE_ENV, PORT, LOG_LEVEL, file, config, warned, phase,
                   listening, signals, conns, pendingAtSignal,
                   answeredPending, lastResponse, sawError, exitCode, loads,
                   reportedUptime, script>>

\* The clock specification: the lifecycle of one process with time passing
\* between its steps, read through the four GET routes.
ClockInit ==
    /\ NODE_ENV \in Envs
    /\ PORT = DefaultPort
    /\ LOG_LEVEL = DefaultLogLevel
    /\ file \in {MissingFile, FileOf(StagingDoc)}
    /\ Boot

ClockNext ==
    \/ LoadConfig
    \/ SetupMiddleware
    \/ Listen
    \/ Serve(RouteRequests)
    \/ SIGTERM
    \/ SIGINT
    \/ CloseCallback
    \/ Tick

ClockSpec == ClockInit /\ [][ClockNext]_vars

----------------------------------------------------------------------------
(* The bootstrap script scripts/setup-gcp-oidc.sh *)

\* Runs of the script in a row
MaxRuns == 2

\* What the script creates: the service account, the workload identity
\* pool, the OIDC provider and the artifact registry repository.
Resources == {"service-account", "pool", "provider", "registry"}
ArgCounts == 0 .. 2

\* main, lines 238-246: the functions in the order they are called.
Steps ==
    <<"check_prerequisites", "enable_apis", "create_service_account",
      "grant_permissions", "create_workload_identity_pool",
      "create_oidc_provider", "bind_service_account",
      "create_artifact_registry", "display_config">>
StepIndex(step) == CHOOSE i \in 1 .. Len(Steps) : Steps[i] = step
NextStep(step) == Steps[StepIndex(step) + 1]

\* The exit status of `gcloud ... describe`: 0 ("found") only when the
\* resource exists; non-zero when it does not ("absent") and when the
\* command fails for any other reason ("error": credentials, network,
\* permissions), whether the resource exists or not.
ProbeOutcomes(cloud, r) ==
    IF r \in cloud THEN {"found", "error"} ELSE {"absent", "error"}

\* A script that creates without looking at the result of the probe.
CreateAlways(probe) == TRUE

\* if gcloud ... describe ... &>/dev/null; then log_warning ... else create:
\* the else branch is taken on every non-zero status.
ShouldCreate(probe) == probe # "found"

\* A run begins: the first on a project in any state, a later one on the
\* project as the run before left it.
Invoke ==
    /\ script.pc = "exited"
    /\ script.run < MaxRuns
    /\ \E argc \in ArgCounts, cloud \in SUBSET Resources :
          /\ script.run > 0 => cloud = script.cloud
          /\ script' = [run |-> script.run + 1, argc |-> argc, pc |-> "main",
                        exit |-> -1, cloud |-> cloud, commands |-> FALSE,
                        issued |-> {}, created |-> {}, probeErrors |-> {},
                        envFailure |-> FALSE,
                        prevOk |-> (script.exit = 0),
                        prevCreated |-> script.created]
    /\ UNCHANGED server

\* main, lines 229-236: the argument check.
main ==
    /\ script.pc = "main"
    /\ script' = IF script.argc < 2
                   THEN [script EXCEPT !.pc = "exited", !.exit = 1]
                   ELSE [script EXCEPT !.pc = Steps[1]]
    /\ UNCHANGED server

\* A function made of commands that create none of the four resources:
\* under `set -e` the first command that fails ends the script with its
\* status.
CommandStep(step) ==
    /\ script.pc = step
    /\ \E ok \in BOOLEAN :
          script' = [script EXCEPT
                       !.commands = TRUE,
                       !.envFailure = @ \/ ~ok,
                       !.pc = IF ok THEN NextStep(step) ELSE "exited",
                       !.exit = IF ok THEN @ ELSE 1]
    /\ UNCHANGED server

\* A function that probes for a resource and creates it: a create for a
\* resource that exists fails (ALREADY_EXISTS), any create can fail, and
\* under `set -e` a failed create ends the script.
CreateStep(step, r) ==
    /\ script.pc = step
    /\ \E probe \in ProbeOutcomes(script.cloud, r), ok \in BOOLEAN :
          LET create == ShouldCreate(probe)
              exists == r \in script.cloud
              done == ~create \/ (~exists /\ ok)
          IN  /\ (~create \/ exists) => ok
              /\ script' = [script EXCEPT
                    !.commands = TRUE,
                    !.probeErrors = IF probe = "error" THEN @ \cup {r} ELSE @,
                    !.envFailure = @ \/ probe = "error" \/ ~ok,
                    !.issued = IF create THEN @ \cup {r} ELSE @,
                    !.created = IF create /\ done THEN @ \cup {r} ELSE @,
                    !.cloud = IF create /\ done THEN @ \cup {r} ELSE @,
                    !.pc = IF done THEN NextStep(step) ELSE "exited",
                    !.exit = IF done THEN @ ELSE 1]
    /\ UNCHANGED server

check_prerequisites == CommandStep("check_prerequisites")
enable_apis == CommandStep("enable_apis")
create_service_account ==
    CreateStep("create_service_account", "service-account")
grant_permissions == CommandStep("grant_permissions")
create_workload_identity_pool ==
    CreateStep("create_workload_identity_pool", "pool")
create_oidc_provider == CreateStep("create_oidc_provider", "provider")
bind_service_account == CommandStep("bind_service_account")
create_artifact_registry ==
    CreateStep("create_artifact_registry", "registry")

\* display_config and the end of main: echo only, then the script ends
\* with status 0.
display_config ==
    /\ script.pc = "display_config"
    /\ script' = [script EXCEPT !.pc = "exited", !.exit = 0]
    /\ UNCHANGED server

BootstrapInit ==
    /\ NODE_ENV = "development"
    /\ PORT = DefaultPort
    /\ LOG_LEVEL = DefaultLogLevel
    /\ file = MissingFile
    /\ Boot

BootstrapNext ==
    \/ Invoke
    \/ main
    \/ check_prerequisites
    \/ enable_apis
    \/ create_service_account
    \/ grant_permissions
    \/ create_workload_identity_pool
    \/ create_oidc_provider
    \/ bind_service_account
    \/ create_artifact_registry
    \/ display_config

BootstrapSpec == BootstrapInit /\ [][BootstrapNext]_vars

----------------------------------------------------------------------------
(* Properties *)

HealthRequest ==
    [method |-> "GET", path |-> Plain(HealthRoute), body |-> "none"]

\* The response held in lastResponse is a 200 from /health saying "healthy".
HealthyAnswer ==
    /\ lastResponse.res.status = 200
    /\ lastResponse.res.handler = "/health"
    /\ lastResponse.res.body.status = "healthy"

\* C1: with no configuration file for the environment identifier, whatever
\* the identifier, the loader warns and substitutes the built-in default
\* record, the middleware setup does not throw, the process never ends with
\* a startup failure, and every GET /health is answered 200 "healthy".
C1_MissingConfigStillHealthy ==
    file.state = "missing" =>
        /\ phase # "crashed"
        /\ exitCode # 1
        /\ phase # "loading" => (warned /\ config = DefaultConfig(PORT))
        /\ phase = "wiring" => ~SecurityReadThrows(config)
        /\ phase = "serving" => listening
        /\ lastResponse.req = HealthRequest => HealthyAnswer

C1_Witness ==
    /\ file.state = "missing"
    /\ NODE_ENV = "ghost"
    /\ phase = "serving"
    /\ lastResponse.req = HealthRequest
    /\ HealthyAnswer

\* The file exists and its content is malformed: it does not parse, or it
\* parses to something that is not a record (null, a scalar).
Malformed(f) ==
    \/ f.state = "unparseable"
    \/ f.state = "ok" /\ f.doc.t # "obj"

\* C2: when the environment's file exists but is malformed, the failure is
\* downgraded to a warning, the default record is used, the process reaches
\* the listening state and GET /health returns 200.
C2_MalformedConfigStillStarts ==
    (Malformed(file) /\ ~Starting) =>
        /\ phase # "crashed"
        /\ warned
        /\ config = DefaultConfig(PORT)
        /\ lastResponse.req = HealthRequest => HealthyAnswer

\* C3: a request with a malformed JSON body is answered 400 by the parsing
\* layer and reaches no route handler.
C3_MalformedBodyIs400 ==
    lastResponse.req.body = "badjson" =>
        /\ lastResponse.res.status = 400
        /\ lastResponse.res.handler \notin
               {"/", "/health", "/features", "/api/status"}

\* C4: whatever requests were answered before, failed ones included, a
\* well-formed GET /health is answered 200 "healthy", and answering a request
\* that failed leaves the process running with its configuration and, while
\* serving, its listener.
C4_HealthUnaffectedByFailures ==
    /\ lastResponse.req = HealthRequest => HealthyAnswer
    /\ sawError =>
        /\ phase \in {"serving", "draining", "stopped"}
        /\ exitCode # 1
        /\ config = LoadedConfig(file, PORT)
        /\ phase = "serving" => listening

C4_Witness ==
    /\ sawError
    /\ phase = "serving"
    /\ lastResponse.req = HealthRequest
    /\ HealthyAnswer

\* A step taken after a signal opens no connection.
NoAcceptAfterSignal ==
    phase \in {"draining", "stopped"} =>
        (\A c \in Conns : (conns[c] = "closed") => (conns'[c] = "closed"))

\* C5: once a termination signal has been handled no connection is accepted
\* any more, and the process has not exited while a request is in flight:
\* at exit every request that was in flight at signal time has been answered
\* (or its client has gone).
C5_GracefulShutdown ==
    /\ [](phase = "stopped" =>
            /\ \A c \in Conns : conns[c] = "closed"
            /\ pendingAtSignal = {}
            /\ exitCode = 0)
    /\ [][NoAcceptAfterSignal]_vars

C5_Witness ==
    /\ phase = "stopped"
    /\ exitCode = 0
    /\ answeredPending

\* C6: once a termination signal has been received, with every request in
\* flight eventually answered, the process eventually stops with status 0.
C6_ShutdownTerminates ==
    (phase = "draining") ~> (phase = "stopped" /\ exitCode = 0)

\* The value a features object of a response gives a flag.
ValueIn(pairs, flag) == (CHOOSE p \in pairs : p[1] = flag)[2]

RootAnswered == lastResponse.res.handler = "/"
FeaturesAnswered == lastResponse.res.handler = "/features"
StatusAnswered == lastResponse.res.handler = "/api/status"

\* C7: every flag value in the features object of a GET / response and of a
\* GET /features response is a boolean, whatever record was loaded.
C7_FlagsStrictlyBoolean ==
    (RootAnswered \/ FeaturesAnswered) =>
        \A p \in lastResponse.res.body.features : IsBoolean(p[2])

\* The flag names GET / surfaces for the loaded record.
RootFlagNames == Keys(RootHandler(config, NODE_ENV, LOG_LEVEL).body.features)

\* C8 as stated: the flag names of a GET /features response include the
\* three names GET / surfaces, for every loaded record.
C8_FeaturesSupersetOfRoot ==
    FeaturesAnswered =>
        /\ RootFlagNames = NamedFlags
        /\ RootFlagNames \subseteq Keys(lastResponse.res.body.features)

\* C8 as amended: a GET /features response names every one of the three
\* flags that GET / reports with a value other than the default false, with
\* the same value; a named flag it does not name is reported false by GET /;
\* and with no file (the default record) it names no flag at all.
C8_FeaturesCoverSetRootFlags ==
    FeaturesAnswered =>
        LET shown == lastResponse.res.body.features
            root == RootHandler(config, NODE_ENV, LOG_LEVEL).body.features
        IN  /\ \A n \in NamedFlags :
                 IF n \in Keys(shown)
                   THEN ValueIn(root, n) # "false"
                          => ValueIn(root, n) = ValueIn(shown, n)
                   ELSE ValueIn(root, n) = "false"
            /\ file.state = "missing" => shown = {}

C8_Witness ==
    /\ FeaturesAnswered
    /\ Keys(lastResponse.res.body.features) = {"newUI", "darkMode"}
    /\ ValueIn(lastResponse.res.body.features, "newUI") = "true"

\* C9: for each of the three named flags GET / reports the boolean stored in
\* the loaded record when the flag is there and false when it is not; GET
\* /features reports the stored value of every flag of the record; with the
\* identifier "production" and the record {features:{betaFeatures:false}}
\* both give betaFeatures = false.
C9_FlagResolution ==
    /\ RootAnswered =>
         \A n \in NamedFlags :
            LET shown == ValueIn(lastResponse.res.body.features, n) IN
              /\ IsBoolean(Get(config.features, n))
                   => shown = Get(config.features, n)
              /\ ~HasKey(config.features, n) => shown = "false"
    /\ FeaturesAnswered =>
         \A n \in FlagNames :
            HasKey(config.features, n) =>
              <<n, Get(config.features, n)>> \in lastResponse.res.body.features
    /\ (NODE_ENV = "production" /\ file = FileOf(ProductionDoc)
          /\ (RootAnswered \/ FeaturesAnswered)) =>
         <<"betaFeatures", "false">> \in lastResponse.res.body.features

C9_Witness ==
    /\ RootAnswered
    /\ Get(config.features, "newUI") = "true"
    /\ Get(config.features, "betaFeatures") = "false"
    /\ ~HasKey(config.features, "advancedAnalytics")
    /\ lastResponse.res.body.features =
         {<<"newUI", "true">>, <<"betaFeatures", "false">>,
          <<"advancedAnalytics", "false">>}

\* C10 as stated: with no configuration file for the identifier, GET
\* /api/status returns 200, status "operational" and config {}.
C10_StatusConfigEmpty ==
    (file.state = "missing" /\ StatusAnswered) =>
        /\ lastResponse.res.status = 200
        /\ lastResponse.res.body.status = "operational"
        /\ lastResponse.res.body.config = {}

\* C10 as amended: with no configuration file for the identifier, GET
\* /api/status returns 200, status "operational" and config equal to the app
\* sub-record of the built-in default record, {name: 'ci-test', port: PORT}.
C10_StatusConfigIsDefaultApp ==
    (file.state = "missing" /\ StatusAnswered) =>
        /\ lastResponse.res.status = 200
        /\ lastResponse.res.body.status = "operational"
        /\ lastResponse.res.body.config =
             {<<"name", "ci-test">>, <<"port", PORT>>}

C10_Witness ==
    /\ file.state = "missing"
    /\ NODE_ENV = "ghost"
    /\ StatusAnswered
    /\ lastResponse.res.status = 200

\* The path of a URL: what is left of it without the query string.
PathOf(url) == IF url.form = "query" THEN Plain(url.segs) ELSE url

\* The latest response is the catch-all's 404 and its message holds the URL
\* exactly as it was requested.
NotFoundAnswer ==
    /\ lastResponse.res.status = 404
    /\ lastResponse.res.handler = "404"
    /\ lastResponse.res.body.error = "Not Found"
    /\ lastResponse.res.body.message[2] = lastResponse.req.path

\* C11 as stated: a GET request to any path other than /, /health,
\* /features and /api/status returns 404 with error "Not Found" and a
\* message that contains the requested URL.
C11_OtherPathIs404 ==
    (/\ lastResponse.req.method = "GET"
     /\ PathOf(lastResponse.req.path) \notin RouteUrls) => NotFoundAnswer

\* C11: a GET request to a path that none of the four routes matches (a
\* route matches whatever the case of the letters and with or without one
\* trailing slash) returns 404 with error "Not Found" and a message that
\* contains the original URL exactly as requested, query string included;
\* /HEALTH and /health/ are answered by the /health handler.
C11_UnmatchedPathIs404 ==
    /\ (/\ lastResponse.req.method = "GET"
        /\ lastResponse.req.path.segs \notin RouteSegs) => NotFoundAnswer
    /\ (/\ lastResponse.req.method = "GET"
        /\ lastResponse.req.path.segs = HealthRoute) => HealthyAnswer

C11_Witness ==
    /\ lastResponse.req.method = "GET"
    /\ lastResponse.req.path = Url(<<"non-existent-route">>, "query")
    /\ NotFoundAnswer

\* C12: a request to an unknown route is never answered 500, whatever its
\* method and its body, well-formed or not (the claim: always 404, never
\* 500).
C12_UnknownRouteNever500 ==
    lastResponse.req.path.segs \in UnknownSegs => lastResponse.res.status # 500

\* The 500 of the central error handler with the message it shows in the
\* environments `shown` and the generic one elsewhere.
ErrorAnswer(shown) ==
    /\ lastResponse.res.status = 500
    /\ lastResponse.res.body.error = "Internal Server Error"
    /\ lastResponse.res.body.message =
          IF NODE_ENV \in shown THEN BodyParseError.message
          ELSE <<"Something went wrong">>

\* A request whose body does not parse has been answered: the parser raised
\* an exception while the response was being built.
RaisedWhileAnswering ==
    /\ lastResponse.req.body = "badjson"
    /\ lastResponse.res.handler # "none"

\* C13 as stated: an exception raised while building a response is caught by
\* the central error handler and produces a 500 whose message is the
\* underlying error message exactly when the environment identifier is not
\* production.
C13_MessageUnlessProduction ==
    RaisedWhileAnswering =>
        /\ lastResponse.res.handler = "error"
        /\ ErrorAnswer(Envs \ {"production"})

\* C13: an exception raised while building a response is caught by the
\* central error handler, the process keeps serving, and the response is a
\* 500 whose message is the underlying error message exactly when the
\* environment identifier is "development"; under every other identifier,
\* production or not, the message is the generic one.
C13_MessageOnlyInDevelopment ==
    RaisedWhileAnswering =>
        /\ lastResponse.res.handler = "error"
        /\ ErrorAnswer({"development"})
        /\ phase \in {"serving", "draining", "stopped"}

C13_Witness ==
    /\ RaisedWhileAnswering
    /\ NODE_ENV = "ghost"
    /\ lastResponse.res.body.message = <<"Something went wrong">>

\* C14: the configuration record in use is never partial or merged: once
\* the loader has run, it is exactly the parsed content of the environment's
\* file when that file could be read, and exactly the complete built-in
\* default record when it could not.
C14_ConfigIsFileOrDefault ==
    phase # "loading" =>
        /\ file.state = "ok" => config = file.doc
        /\ file.state # "ok" => config = DefaultConfig(PORT)

\* a file with only a features field serves /api/status: no field of the
\* default has been added to the record
C14_Witness ==
    /\ file = FileOf(ProductionDoc)
    /\ config = ProductionDoc
    /\ lastResponse.res.handler = "/api/status"
    /\ lastResponse.res.body.config = {}

\* A step that runs the loader.
LoaderRuns == loads' # loads \/ warned' # warned

\* C15: the loader runs exactly once in the life of the process, before the
\* server listens and before any connection is accepted; no request and no
\* signal runs it again.
C15_LoadedOnceBeforeListening ==
    /\ [](/\ loads <= 1
          /\ phase # "loading" => loads = 1
          /\ (listening \/ \E c \in Conns : conns[c] # "closed") => loads = 1)
    /\ [][LoaderRuns =>
            (/\ phase = "loading"
             /\ ~listening
             /\ lastResponse.res = NoResponse
             /\ signals = 0)]_vars

C15_Witness ==
    /\ loads = 1
    /\ signals > 0
    /\ lastResponse.res.handler # "none"
    /\ phase = "stopped"

\* C16: no request handler modifies the loaded configuration record: once
\* the loader has run, every step, the handling of any request included,
\* leaves the record as the loader established it.
C16_HandlersLeaveConfig ==
    [][phase # "loading" => config' = config]_vars

C16_Witness ==
    /\ lastResponse.res.handler = "/"
    /\ sawError
    /\ file.state = "missing"
    /\ config = DefaultConfig(PORT)

\* C17: GET /health requests in flight at the same time, answered in any
\* order, are all answered 200 "healthy", and all carry the same environment
\* value: the environment identifier, which no step changes.
C17_ConcurrentHealthConsistent ==
    /\ [](lastResponse.req = HealthRequest =>
            /\ HealthyAnswer
            /\ lastResponse.res.body.environment = NODE_ENV)
    /\ [][NODE_ENV' = NODE_ENV]_vars

\* /health answered on one connection while every other connection has a
\* request in flight
C17_Witness ==
    /\ lastResponse.req = HealthRequest
    /\ HealthyAnswer
    /\ Cardinality({c \in Conns : conns[c] = "busy"}) = MaxConns - 1
    /\ Cardinality({c \in Conns : conns[c] = "idle"}) = 1

\* C18: the uptime reported by /health is never negative, and from one
\* /health response to the next within the life of a process it never
\* decreases.
C18_UptimeMonotonic ==
    /\ [](/\ reportedUptime >= 0
          /\ lastResponse.res.handler = "/health" =>
                lastResponse.res.body.uptime >= 0)
    /\ [][reportedUptime' >= reportedUptime]_vars

\* /health answered after time has passed, its uptime the latest reported
C18_Witness ==
    /\ lastResponse.res.handler = "/health"
    /\ lastResponse.res.body.uptime > 1
    /\ reportedUptime = lastResponse.res.body.uptime

\* A request with a method other than GET for one of the four route URLs
\* has been answered.
OtherMethodOnRoute ==
    /\ lastResponse.req.method \notin {"", "GET"}
    /\ lastResponse.req.path \in RouteUrls

\* C19 as stated: a request with a method other than GET on one of the four
\* defined paths is not served by that path's handler and is answered 404
\* by the catch-all.
C19_OtherMethodIs404 ==
    OtherMethodOnRoute =>
        /\ lastResponse.res.status = 404
        /\ lastResponse.res.handler = "404"

\* C19: a request with a method other than GET on one of the four defined
\* paths is served by that path's handler only when the method is HEAD;
\* OPTIONS is answered 204 by cors, a body that does not parse is answered
\* by the error handler, and any other request (DELETE /health, POST
\* /health) is answered 404 by the catch-all.
C19_OtherMethodOnRoute ==
    OtherMethodOnRoute =>
        IF lastResponse.req.method = "OPTIONS"
          THEN /\ lastResponse.res.status = 204
               /\ lastResponse.res.handler = "cors"
        ELSE IF lastResponse.req.body = "badjson"
          THEN lastResponse.res.handler = "error"
        ELSE IF lastResponse.req.method = "HEAD"
          THEN /\ lastResponse.res.status = 200
               /\ lastResponse.res.handler \in
                    {"/", "/health", "/features", "/api/status"}
        ELSE NotFoundAnswer

C19_Witness ==
    /\ lastResponse.req.method = "DELETE"
    /\ lastResponse.req.path = Plain(HealthRoute)
    /\ NotFoundAnswer

\* C20: every response, the 200s of the routes, the 404 of the catch-all,
\* the 500 of the error handler and the 204 of a preflight alike, carries
\* the x-content-type-options and x-frame-options headers.
C20_SecurityHeadersOnEveryResponse ==
    lastResponse.res.handler # "none" =>
        {"x-content-type-options", "x-frame-options"} \subseteq
            lastResponse.headers

C20_Witness ==
    /\ lastResponse.res.status = 500
    /\ "x-frame-options" \in lastResponse.headers
    /\ "x-content-type-options" \in lastResponse.headers

\* An OPTIONS request has been answered.
OptionsAnswered ==
    /\ lastResponse.req.method = "OPTIONS"
    /\ lastResponse.res.handler # "none"

\* C21 as stated: an OPTIONS request is answered with status 204 by the
\* CORS middleware before any route handler or the catch-all is reached.
C21_PreflightIs204 ==
    OptionsAnswered =>
        /\ lastResponse.res.status = 204
        /\ lastResponse.res.handler = "cors"

\* The security.cors options of the loaded record, which leave the handling
\* of a preflight at the library's defaults when they set none of origin
\* false, preflightContinue true and another optionsSuccessStatus.
LoadedCors ==
    IF HasKey(config.security, "cors")
      THEN Get(config.security, "cors") ELSE {}
PreflightAtDefaults ==
    /\ <<"origin", "false">> \notin LoadedCors
    /\ <<"preflightContinue", "true">> \notin LoadedCors
    /\ <<"optionsSuccessStatus", "200">> \notin LoadedCors

\* C21: an OPTIONS request is answered with status 204 by the CORS
\* middleware before any route handler or the catch-all is reached, when the
\* security.cors options of the loaded record leave the preflight handling
\* at its defaults, as the built-in default record does; no route handler
\* answers an OPTIONS request under any options, but with origin false or
\* preflightContinue true the request reaches the catch-all and is answered
\* 404.
C21_PreflightIs204AtDefaults ==
    OptionsAnswered =>
        /\ lastResponse.res.handler \in {"cors", "404"}
        /\ PreflightAtDefaults =>
              /\ lastResponse.res.status = 204
              /\ lastResponse.res.handler = "cors"
        /\ (\/ <<"origin", "false">> \in LoadedCors
            \/ <<"preflightContinue", "true">> \in LoadedCors)
              => NotFoundAnswer

C21_Witness ==
    /\ OptionsAnswered
    /\ lastResponse.req.path = Plain(HealthRoute)
    /\ file.state = "ok"
    /\ PreflightAtDefaults
    /\ lastResponse.res.status = 204

\* A step in which a termination signal arrives when one has been handled
\* already.
FurtherSignal == signals > 0 /\ signals' > signals

\* C22: a further termination signal received while the server is draining
\* changes nothing but the count of signals: the process goes on draining,
\* no connection and no request in flight is dropped, the process does not
\* exit in that step; and when the process has stopped after several
\* signals, every request that was in flight has ended and the exit status
\* is 0.
C22_FurtherSignalsHarmless ==
    /\ [][FurtherSignal =>
            /\ phase = "draining" /\ phase' = "draining"
            /\ exitCode' = -1
            /\ UNCHANGED <<conns, pendingAtSignal, listening, lastResponse>>
         ]_vars
    /\ []((phase = "stopped" /\ signals > 1) =>
            /\ exitCode = 0
            /\ pendingAtSignal = {}
            /\ \A c \in Conns : conns[c] = "closed")

\* a request in flight at the first signal is still in flight after the
\* second, and the process is running
C22_Witness ==
    /\ signals > 1
    /\ pendingAtSignal # {}
    /\ \E c \in pendingAtSignal : conns[c] = "busy"
    /\ phase = "draining"
    /\ exitCode = -1

\* Values of the logging field of a record that differs from the loaded one
\* only there.
TwinLogging ==
    {Undefined, Null, Obj({}), Obj({<<"level", "debug">>}),
     Obj({<<"level", "warn">>}), Obj({<<"level", "info">>})}

\* C23: the logLevel reported by GET / and GET /health is the value of
\* LOG_LEVEL, and a process whose loaded configuration record differs only in
\* its logging field starts as this one does and gives to every request
\* the response this one gave.
C23_LogLevelOnlyFromEnvironment ==
    /\ lastResponse.res.handler = "/" =>
          lastResponse.res.body.logLevel = LOG_LEVEL
    /\ lastResponse.res.handler = "/health" =>
          lastResponse.res.body.config.logLevel = LOG_LEVEL
    /\ (config.t = "obj" /\ lastResponse.res.handler # "none") =>
          \A l \in TwinLogging :
              LET twin == [config EXCEPT !.logging = l] IN
              /\ SecurityReadThrows(twin) = SecurityReadThrows(config)
              /\ Respond(lastResponse.req, twin, NODE_ENV, LOG_LEVEL, PORT,
                         clock) = lastResponse.res

\* the record says debug, the environment says warn, GET / says warn
C23_Witness ==
    /\ lastResponse.res.handler = "/"
    /\ Get(config.logging, "level") = "debug"
    /\ LOG_LEVEL = "warn"
    /\ lastResponse.res.body.logLevel = "warn"

\* With fewer than two arguments the script runs no command and ends with
\* status 1.
ExitsOnMissingArguments ==
    script.argc < 2 =>
        /\ script.pc \in {"main", "exited"}
        /\ ~script.commands
        /\ script.issued = {}
        /\ script.pc = "exited" /\ script.run > 0 => script.exit = 1

\* A step of a run moves to the function called next or ends the script;
\* the script ends with status 0 only after display_config.
StepsInOrder ==
    (script'.pc # script.pc /\ script.pc \notin {"main", "exited"}) =>
        IF script.pc = "display_config"
          THEN script'.pc = "exited" /\ script'.exit = 0
          ELSE \/ script'.pc = NextStep(script.pc) /\ script'.exit = -1
               \/ script'.pc = "exited" /\ script'.exit = 1

\* A command that fails, the probes of the if statements aside, ends the
\* script in that step with status 1.
AbortsAtFirstFailure ==
    (/\ script'.envFailure /\ ~script.envFailure
     /\ script'.probeErrors = script.probeErrors) =>
        script'.pc = "exited" /\ script'.exit = 1

\* The creates issued in this step
Issuing == IF script'.run = script.run
             THEN script'.issued \ script.issued ELSE {}

\* A run that follows a successful run with both arguments given and no
\* command failing issues no create, creates nothing, and ends with status 0.
SecondRunCreatesNothing ==
    (/\ script.run > 1 /\ script.prevOk
     /\ script.argc >= 2 /\ ~script.envFailure) =>
        /\ script.issued = {}
        /\ script.created = {}
        /\ script.pc = "exited" => script.exit = 0

====
